---- MODULE Spec2Model ----
(***************************************************************************)
(* WeatherServer (src/src/index.ts, src/src/types.ts): the four request    *)
(* handlers of the MCP weather adapter, the argument validator and the     *)
(* two provider calls.                                                     *)
(*                                                                         *)
(* Representation of JavaScript values.                                    *)
(*   - A scalar is a record [t, s, h]: t is the tag ("absent" for a        *)
(*     property that is not there, "undefined", "null", "string", "num",   *)
(*     "nan"), s the text of a string, h TWICE the value of a number, so   *)
(*     that halves (2.5 is h = 5) are exact.  typeof maps "num" and "nan"  *)
(*     to "number".                                                        *)
(*   - A text that the code splits or builds from a template is a tuple    *)
(*     of pieces, separators being pieces of their own:                    *)
(*     "2024-01-02 09:00:00" is <<"2024-01-02", " ", "09:00:00">>.         *)
(*   - The handlers keep nothing between requests: the only fields of      *)
(*     WeatherServer (server, axiosInstance) are set in the constructor.   *)
(*     A handler is an async function suspended once, at its await of      *)
(*     axiosInstance.get; while it is suspended other requests are taken   *)
(*     and other handlers resumed, in any order.                           *)
(***************************************************************************)
EXTENDS Integers, Sequences, FiniteSets, Bags

VARIABLES
    pending,   \* the handlers suspended at their GET: a bag of handler records
    done,      \* the handler that has just ended and whose response is being
               \* written, or NoHandler
    nreq,      \* requests received so far
    naccepted, \* requests that passed routing and validation so far
    ngets      \* GETs issued so far, all requests together

vars == <<pending, done, nreq, naccepted, ngets>>

\* ------------------------------------------------------------------ bounds

\* Requests the orchestrator sends in one run.
MaxRequests == 2
\* Longest forecast list the provider returns (40 is the provider's 5 days).
MaxListLen == 41
\* Largest `days` a caller supplies.
MaxDaysArg == 6
\* Last day the wall clock shows while the server runs (day 0 is the first).
MaxClockDay == 1

\* ------------------------------------------------------------ JS scalars

Absent    == [t |-> "absent",    s |-> "", h |-> 0]
Undefined == [t |-> "undefined", s |-> "", h |-> 0]
Null      == [t |-> "null",      s |-> "", h |-> 0]
NaN       == [t |-> "nan",       s |-> "", h |-> 0]
Str(x)    == [t |-> "string",    s |-> x,  h |-> 0]
\* The number k/2.
Half(k)   == [t |-> "num",       s |-> "", h |-> k]
Num(k)    == Half(2 * k)

\* Reading a property: one that is not there reads as undefined.
Get(p) == IF p.t = "absent" THEN Undefined ELSE p

TypeOf(v) ==
    CASE v.t = "undefined" -> "undefined"
      [] v.t = "absent"    -> "undefined"
      [] v.t = "null"      -> "object"
      [] v.t = "string"    -> "string"
      [] v.t = "num"       -> "number"
      [] v.t = "nan"       -> "number"

\* ToBoolean, as `||` applies it.
Truthy(v) ==
    CASE v.t = "num"    -> v.h # 0
      [] v.t = "string" -> v.s # ""
      [] OTHER          -> FALSE

\* a ?? b
Nullish(v) == v.t \in {"undefined", "null", "absent"}

\* ---------------------------------------------------------- API_CONFIG

DEFAULT_CITY == "San Francisco"
CURRENT      == "weather"
FORECAST     == "forecast"

\* `weather://${city}/current`
ResourceUri(city) == <<"weather://", city, "/current">>

\* --------------------------------------------------------- types.ts

\* Tool arguments: `shape` is what typeof sees ("object", "null", "undefined",
\* "string", "number"); city and days are the two properties of an object.
ArgsObject(c, d) == [shape |-> "object", city |-> c, days |-> d]
ArgsOther(sh)    == [shape |-> sh, city |-> Absent, days |-> Absent]

TypeOfArgs(args) == IF args.shape = "null" THEN "object" ELSE args.shape

\* The validator without its test of days.
isValidForecastArgsNoDays(args) ==
    /\ TypeOfArgs(args) = "object"
    /\ args.shape # "null"
    /\ args.city.t # "absent"
    /\ TypeOf(args.city) = "string"

\* The validator testing that city is there, not that it is a string.
isValidForecastArgsAnyCity(args) ==
    /\ TypeOfArgs(args) = "object"
    /\ args.shape # "null"
    /\ args.city.t # "absent"
    /\ (Get(args.days).t = "undefined" \/ TypeOf(Get(args.days)) = "number")

isValidForecastArgs(args) ==
    /\ TypeOfArgs(args) = "object"
    /\ args.shape # "null"
    /\ args.city.t # "absent"
    /\ TypeOf(args.city) = "string"
    /\ (Get(args.days).t = "undefined" \/ TypeOf(Get(args.days)) = "number")

\* ------------------------------------------------- strings and the clock

Min(a, b) == IF a <= b THEN a ELSE b

\* s.split(sep)[0]: the pieces of s before its first separator, all of s when
\* it holds none.
RECURSIVE SplitHead(_, _)
SplitHead(s, sep) ==
    IF s = << >> THEN << >>
    ELSE IF Head(s) = sep THEN << >>
    ELSE <<Head(s)>> \o SplitHead(Tail(s), sep)

\* The calendar date of day d, as toISOString and the provider print it.
DayStr(d) ==
    <<"2024-01-01", "2024-01-02", "2024-01-03", "2024-01-04", "2024-01-05",
      "2024-01-06", "2024-01-07", "2024-01-08", "2024-01-09", "2024-01-10">>[d + 1]

\* new Date().toISOString() on day d.
ToISOString(d) == <<DayStr(d), "T", "12:00:00.000Z">>

\* The provider's dt_txt of 3-hour slot j of a list that starts at midnight
\* of day 0.
DtTxt(j) == <<DayStr(j \div 8), " ", "00:00:00">>

\* ------------------------------------------------ the provider's replies

\* dt_txt?: string
NoDt     == [t |-> "undefined", txt |-> << >>]
DtOf(x)  == [t |-> "string", txt |-> x]

\* OpenWeatherResponse (types.ts).
Entry(dt, temp, conds) ==
    [dt_txt  |-> dt,
     main    |-> [temp |-> temp, humidity |-> 60],
     weather |-> conds,
     wind    |-> [speed |-> 3]]

Conditions(j) ==
    IF (j \div 8) % 2 = 0
    THEN <<[description |-> "clear sky"]>>
    ELSE <<[description |-> "light rain"], [description |-> "mist"]>>

\* How a forecast list carries its dt_txt (optional in OpenWeatherResponse):
\* on every entry, on none, or on those of the first day only.
DtModes == {"daily", "none", "firstDay"}

\* Index of the entry whose weather list is empty; NoBad when none is.
NoBad    == 0 - 1
BadSlots == {NoBad, 0, 3, 8}

\* Entry j (from 0) of the provider list (mode, bad). Its temperature is j,
\* so that an output entry tells which input entry it was built from.
ListEntry(j, mode, bad) ==
    Entry(CASE mode = "daily"    -> DtOf(DtTxt(j))
            [] mode = "none"     -> NoDt
            [] mode = "firstDay" -> IF j < 8 THEN DtOf(DtTxt(j)) ELSE NoDt,
          j,
          IF j = bad THEN << >> ELSE Conditions(j))

MkList(n, mode, bad) == [i \in 1..n |-> ListEntry(i - 1, mode, bad)]

ListsOfLength(lens) ==
    { MkList(n, mode, bad) : n \in lens, mode \in DtModes, bad \in BadSlots }

\* Every list of up to MaxListLen entries.
ForecastLists == ListsOfLength(0..MaxListLen)

\* The lists the provider answers with while several handlers are in flight:
\* empty, one day, one day and a slot, two days, the provider's five days.
ForecastListsInFlight == ListsOfLength({0, 8, 9, 16, 40})

CurrentPayloads ==
    { Entry(NoDt, 21, <<[description |-> "clear sky"]>>),
      Entry(DtOf(DtTxt(0)), 0 - 4, <<[description |-> "snow"], [description |-> "mist"]>>),
      Entry(NoDt, 21, << >>) }

\* An AxiosError: its own message, and the response it carries when the
\* provider answered. data.shape is "object", "string" (a body that is no
\* JSON) or "null" (the body `null`); data.message is the property of an object.
AxiosError(msg, hasResponse, shape, m) ==
    [isAxios  |-> TRUE,
     message  |-> msg,
     response |-> [present |-> hasResponse,
                   data    |-> [shape |-> shape, message |-> m]]]

AxiosErrors ==
    { AxiosError("getaddrinfo ENOTFOUND api.openweathermap.org", FALSE, "undefined", Absent),
      AxiosError("Request failed with status code 401", TRUE, "object", Str("Invalid API key")),
      AxiosError("Request failed with status code 404", TRUE, "object", Str("city not found")),
      AxiosError("Request failed with status code 400", TRUE, "object", Str("")),
      AxiosError("Request failed with status code 500", TRUE, "object", Absent),
      AxiosError("Request failed with status code 500", TRUE, "object", Null),
      AxiosError("Request failed with status code 502", TRUE, "string", Absent),
      AxiosError("Request failed with status code 503", TRUE, "null", Absent) }

\* What the await of axiosInstance.get settles with.
NoReply      == [status |-> "none"]
Fulfilled(d) == [status |-> "fulfilled", data |-> d]
Rejected(e)  == [status |-> "rejected", error |-> e]

\* ------------------------------------------------------------ exceptions

\* new McpError(code, text)
McpError(code, text) == [class |-> "McpError", code |-> code, message |-> text]

\* What reading a property of undefined or null throws.
TypeError == [class |-> "TypeError", code |-> "", message |-> <<"Cannot read properties">>]

\* A value computed, or an exception thrown on the way.
Value(v)  == [threw |-> FALSE, value |-> v, error |-> TypeError]
Throw(e)  == [threw |-> TRUE, value |-> << >>, error |-> e]

\* ---------------------------------------------------- handler outcomes

NoResp       == [kind |-> "none"]
\* The handler returned r.
Returned(r)  == [kind |-> "result", result |-> r]
\* The handler threw e: the request ends with a protocol error.
Threw(e)     == [kind |-> "throw", error |-> e]

\* JSON.stringify(v, null, 2): the text is kept as the value it encodes,
\* marked as JSON text (the values here are strings and finite numbers, on
\* which the encoding is one to one).
JSONstringify(v) == <<"json", v>>

\* ------------------------------------------- ListResources, ListTools

ListResourcesResult ==
    [resources |-> <<[uri      |-> ResourceUri(DEFAULT_CITY),
                      name     |-> <<"Current weather in ", DEFAULT_CITY>>,
                      mimeType |-> "application/json"]>>]

ListToolsResult ==
    [tools |-> <<[name     |-> "get_forecast",
                  required |-> <<"city">>,
                  minimum  |-> 1,
                  maximum  |-> 5]>>]

\* ------------------------------------------------- provider error text

\* error.response?.data.message ?? error.message
ProviderMessage(error) ==
    IF ~error.response.present THEN Value(error.message)
    ELSE IF error.response.data.shape \in {"null", "undefined"} THEN Throw(TypeError)
    ELSE LET m == Get(error.response.data.message)
         IN  IF Nullish(m) THEN Value(error.message) ELSE Value(m.s)

\* `Weather API error: ${...}`
WeatherApiErrorText(msg) == <<"Weather API error: ", msg>>

\* ------------------------------------------------------- ReadResource

\* The body of the try, once the GET is fulfilled with data, on clock day now.
ReadResourceTry(uri, data, now) ==
    IF data.weather = << >> THEN Throw(TypeError)
    ELSE Value([contents |->
            <<[uri      |-> uri,
               mimeType |-> "application/json",
               text     |-> JSONstringify(
                   [temperature |-> data.main.temp,
                    conditions  |-> data.weather[1].description,
                    humidity    |-> data.main.humidity,
                    wind_speed  |-> data.wind.speed,
                    timestamp   |-> ToISOString(now)])]>>])

\* The catch: e is an AxiosError (the GET was rejected) when isAxios.
ReadResourceCatch(e, isAxios) ==
    IF isAxios
    THEN LET m == ProviderMessage(e)
         IN  IF m.threw THEN Threw(m.error)
             ELSE Threw(McpError("InternalError", WeatherApiErrorText(m.value)))
    ELSE Threw(e)

\* ----------------------------------------------------------- CallTool

\* Math.min(a, b) on numbers.
MathMin(a, b) ==
    IF a.t = "nan" \/ b.t = "nan" THEN NaN ELSE Half(Min(a.h, b.h))

\* Math.min(request.params.arguments.days || 3, 5)
DaysOf(args) ==
    MathMin(IF Truthy(Get(args.days)) THEN Get(args.days) ELSE Num(3), Num(5))

\* days * 24: the count of hourly entries, not of 3-hour ones.
CntHourly(days) == (days.h * 24) \div 2

\* days * 8, for days a number in halves: a whole number.
Cnt(days) == (days.h * 8) \div 2

\* dayData.dt_txt?.split(' ')[0] ?? new Date().toISOString().split('T')[0]
\* where new Date(), evaluated only when dt_txt is not there, is on day now.
DateOf(dayData, now) ==
    IF dayData.dt_txt.t = "string"
    THEN SplitHead(dayData.dt_txt.txt, " ")
    ELSE SplitHead(ToISOString(now), "T")

\* The days the wall clock shows during n successive iterations: it does not
\* go back.
RECURSIVE ClockTicks(_, _)
ClockTicks(n, from) ==
    IF n = 0 THEN {<< >>}
    ELSE UNION { { <<d>> \o t : t \in ClockTicks(n - 1, d) } : d \in from..MaxClockDay }

\* The loop over whole strides only: i + 8 <= list.length.
RECURSIVE ForecastLoopWholeDays(_, _, _, _)
ForecastLoopWholeDays(list, i, acc, ticks) ==
    IF ~(i + 8 <= Len(list)) THEN Value(acc)
    ELSE LET dayData == list[i + 1]
         IN  IF dayData.weather = << >> THEN Throw(TypeError)
             ELSE ForecastLoopWholeDays(list, i + 8,
                    Append(acc, [date        |-> DateOf(dayData, ticks[(i \div 8) + 1]),
                                 temperature |-> dayData.main.temp,
                                 conditions  |-> dayData.weather[1].description]),
                    ticks)

\* for (let i = 0; i < list.length; i += 8) { forecasts.push(...) }
\* from index i (from 0) with forecasts so far acc; ticks[k] is the day of the
\* wall clock during the k-th iteration (from 1), which new Date() reads there.
RECURSIVE ForecastLoop(_, _, _, _)
ForecastLoop(list, i, acc, ticks) ==
    IF ~(i < Len(list)) THEN Value(acc)
    ELSE LET dayData == list[i + 1]
         IN  IF dayData.weather = << >> THEN Throw(TypeError)
             ELSE ForecastLoop(list, i + 8,
                    Append(acc, [date        |-> DateOf(dayData, ticks[(i \div 8) + 1]),
                                 temperature |-> dayData.main.temp,
                                 conditions  |-> dayData.weather[1].description]),
                    ticks)

\* The body of the try, once the GET is fulfilled with list.
CallToolTry(list, ticks) ==
    LET f == ForecastLoop(list, 0, << >>, ticks)
    IN  IF f.threw THEN f
        ELSE Value([content |-> <<[type |-> "text", text |-> JSONstringify(f.value)]>>,
                    isError |-> FALSE])

\* The catch turning every exception into an error payload.
CallToolCatchAll(e, isAxios) ==
    Returned([content |-> <<[type |-> "text",
                             text |-> WeatherApiErrorText("request failed")]>>,
              isError |-> TRUE])

\* The catch.
CallToolCatch(e, isAxios) ==
    IF isAxios
    THEN LET m == ProviderMessage(e)
         IN  IF m.threw THEN Threw(m.error)
             ELSE Returned([content |-> <<[type |-> "text",
                                           text |-> WeatherApiErrorText(m.value)]>>,
                            isError |-> TRUE])
    ELSE Threw(e)

\* -------------------------------------------------------- the requests

NoReq   == [kind |-> "none", uri |-> << >>, name |-> "", args |-> ArgsOther("undefined")]
NoFrame == [city |-> "", days |-> NaN]

Request(kind, uri, name, args) == [kind |-> kind, uri |-> uri, name |-> name, args |-> args]

Uris ==
    { ResourceUri(DEFAULT_CITY),
      ResourceUri("Paris"),
      ResourceUri("san francisco"),
      <<"weather://", DEFAULT_CITY, "/forecast">>,
      <<"weather://", DEFAULT_CITY, "/current", "/">>,
      << >> }

ToolNames == {"get_forecast", "get_current", ""}

CityValues == {Absent, Undefined, Null, Num(7), Str(""), Str("Paris")}

\* days: not there, undefined, null, a numeric string, NaN, the whole numbers
\* from -1 to MaxDaysArg, a half and two and a half.
DaysValues ==
    {Absent, Undefined, Null, Str("3"), NaN, Half(1), Half(5)}
        \cup {Num(k) : k \in (0 - 1)..MaxDaysArg}

\* Every days with the city "Paris", every city without days and with two
\* and a half days, and the arguments that are no object.
ToolArgs ==
    {ArgsOther(sh) : sh \in {"undefined", "null", "string", "number"}}
        \cup {ArgsObject(Str("Paris"), d) : d \in DaysValues}
        \cup {ArgsObject(c, d) : c \in CityValues, d \in {Absent, Half(5)}}

\* axiosInstance.get(endpoint, {params}): the GETs one call issues.
GetParams(endpoint, q, hasCnt, cnt) ==
    [endpoint |-> endpoint, q |-> q, hasCnt |-> hasCnt, cnt |-> cnt,
     units |-> "metric"]

\* The GET of the current weather of city.
CurrentGets(city) == <<GetParams(CURRENT, city, FALSE, 0)>>

\* The forecast GET issued a second time.
ForecastGetsRetried(city, days) ==
    <<GetParams(FORECAST, city, TRUE, Cnt(days)), GetParams(FORECAST, city, TRUE, Cnt(days))>>

\* The GET of cnt = days * 8 forecast entries of city.
ForecastGets(city, days) == <<GetParams(FORECAST, city, TRUE, Cnt(days))>>

\* The comparison of the scheme and the path only, the city left out.
UnknownResourceAnyCity(uri) ==
    ~(Len(uri) = 3 /\ uri[1] = "weather://" /\ uri[3] = "/current")

\* request.params.uri !== `weather://${city}/current`
UnknownResource(uri) == uri # ResourceUri(DEFAULT_CITY)

\* -------------------------------------------------------- the handlers

\* One invocation of a handler: where it stands (at: "awaitCurrent" or
\* "awaitForecast" while suspended, "done" once ended), its request, its
\* locals, the GETs issued for it, what its GET settled with, how it ended,
\* and the days its new Date() calls returned, in order.
Handler(at, r, f, gets, rep, outcome, reads) ==
    [at |-> at, req |-> r, frame |-> f, http |-> gets, reply |-> rep,
     resp |-> outcome, reads |-> reads]

NoHandler == Handler("none", NoReq, NoFrame, << >>, NoReply, NoResp, << >>)

\* The read-resource handler at its await.
SuspendedRead(r) ==
    Handler("awaitCurrent", r, [city |-> DEFAULT_CITY, days |-> NaN],
            CurrentGets(DEFAULT_CITY), NoReply, NoResp, << >>)

\* The get_forecast handler at its await.
SuspendedForecast(r) ==
    Handler("awaitForecast", r, [city |-> r.args.city.s, days |-> DaysOf(r.args)],
            ForecastGets(r.args.city.s, DaysOf(r.args)), NoReply, NoResp, << >>)

\* ------------------------------------------------------------- actions

Init ==
    /\ pending = EmptyBag
    /\ done = NoHandler
    /\ nreq = 0
    /\ naccepted = 0
    /\ ngets = 0

\* A request is dispatched to its handler; the response of a handler that
\* ended is written in the turn of the event loop in which it ended, before
\* anything else is taken.
Receive ==
    /\ done.at = "none"
    /\ nreq < MaxRequests
    /\ nreq' = nreq + 1

\* The handler of r ended without reaching the provider.
EndsAtOnce(r, outcome) ==
    /\ done' = Handler("done", r, NoFrame, << >>, NoReply, outcome, << >>)
    /\ UNCHANGED <<pending, naccepted, ngets>>

\* The handler h issued its GETs and is suspended.
Suspends(h) ==
    /\ pending' = pending (+) SetToBag({h})
    /\ naccepted' = naccepted + 1
    /\ ngets' = ngets + Len(h.http)
    /\ UNCHANGED done

ListResources ==
    /\ Receive
    /\ EndsAtOnce(Request("list-resources", << >>, "", ArgsOther("undefined")),
                  Returned(ListResourcesResult))

ListTools ==
    /\ Receive
    /\ EndsAtOnce(Request("list-tools", << >>, "", ArgsOther("undefined")),
                  Returned(ListToolsResult))

ReadResource ==
    \E uri \in Uris :
        LET r == Request("read-resource", uri, "", ArgsOther("undefined"))
        IN  /\ Receive
            /\ IF UnknownResource(uri)
               THEN EndsAtOnce(r, Threw(McpError("InvalidRequest",
                                                 <<"Unknown resource: ">> \o uri)))
               ELSE Suspends(SuspendedRead(r))

CallTool ==
    \E name \in ToolNames, args \in ToolArgs :
        LET r == Request("call-tool", << >>, name, args)
        IN  /\ Receive
            /\ IF name # "get_forecast"
               THEN EndsAtOnce(r, Threw(McpError("MethodNotFound",
                                                 <<"Unknown tool: ", name>>)))
               ELSE IF ~isValidForecastArgs(args)
               THEN EndsAtOnce(r, Threw(McpError("InvalidParams",
                                                 <<"Invalid forecast arguments">>)))
               ELSE Suspends(SuspendedForecast(r))

\* The GET of the suspended handler h settles with rep and the rest of the
\* handler runs to its end (no response is waiting to be written: see Receive).
Settles(h, rep, outcome, reads) ==
    /\ pending' = pending (-) SetToBag({h})
    /\ done' = [h EXCEPT !.at = "done", !.reply = rep, !.resp = outcome, !.reads = reads]
    /\ UNCHANGED <<nreq, naccepted, ngets>>

ReadResourceSettles ==
    \E h \in BagToSet(pending) :
        /\ done.at = "none"
        /\ h.at = "awaitCurrent"
        /\ \/ \E data \in CurrentPayloads, now \in 0..MaxClockDay :
                LET t == ReadResourceTry(h.req.uri, data, now)
                IN  IF t.threw
                    THEN Settles(h, Fulfilled(data), ReadResourceCatch(t.error, FALSE), << >>)
                    ELSE Settles(h, Fulfilled(data), Returned(t.value), <<now>>)
           \/ \E e \in AxiosErrors :
                Settles(h, Rejected(e), ReadResourceCatch(e, TRUE), << >>)

\* The days new Date() returned in the loop over list: one for each sampled
\* entry without dt_txt, up to and including the entry whose empty weather
\* list throws, date (index.ts 212) being evaluated before conditions (214).
RECURSIVE ClockReads(_, _, _)
ClockReads(list, i, ticks) ==
    IF ~(i < Len(list)) THEN << >>
    ELSE LET dayData == list[i + 1]
             read    == IF dayData.dt_txt.t = "string" THEN << >>
                        ELSE <<ticks[(i \div 8) + 1]>>
         IN  IF dayData.weather = << >> THEN read
             ELSE read \o ClockReads(list, i + 8, ticks)

\* The forecast GET settles, with a list of lists when it is fulfilled.
CallToolSettlesWith(lists) ==
    \E h \in BagToSet(pending) :
        /\ done.at = "none"
        /\ h.at = "awaitForecast"
        /\ \/ \E list \in lists :
                \E ticks \in ClockTicks((Len(list) + 7) \div 8, 0) :
                    LET t == CallToolTry(list, ticks)
                    IN  IF t.threw
                        THEN Settles(h, Fulfilled([list |-> list]),
                                     CallToolCatch(t.error, FALSE),
                                     ClockReads(list, 0, ticks))
                        ELSE Settles(h, Fulfilled([list |-> list]), Returned(t.value),
                                     ClockReads(list, 0, ticks))
           \/ \E e \in AxiosErrors :
                Settles(h, Rejected(e), CallToolCatch(e, TRUE), << >>)

CallToolSettles == CallToolSettlesWith(ForecastListsInFlight)

\* The server writes the response of the handler that ended (index.ts
\* 241-243: the transport the server is connected to).
Send ==
    /\ done.at = "done"
    /\ done' = NoHandler
    /\ UNCHANGED <<pending, nreq, naccepted, ngets>>

Next ==
    \/ ListResources
    \/ ListTools
    \/ ReadResource
    \/ CallTool
    \/ ReadResourceSettles
    \/ CallToolSettles
    \/ Send

Spec == Init /\ [][Next]_vars

\* ------------------------------------------- the forecast handler alone

\* One get_forecast handler is suspended at its GET, as CallTool leaves it.
InitForecast ==
    /\ \E args \in {a \in ToolArgs : isValidForecastArgs(a)} :
          pending = SetToBag({SuspendedForecast(Request("call-tool", << >>,
                                                        "get_forecast", args))})
    /\ done = NoHandler
    /\ nreq = 1
    /\ naccepted = 1
    /\ ngets = Len(ForecastGets("", NaN))

\* Its GET settles, with any list of up to MaxListLen entries.
CallToolSettlesAnyList == CallToolSettlesWith(ForecastLists)

NextForecast ==
    \/ CallToolSettlesAnyList
    \/ Send

SpecForecast == InitForecast /\ [][NextForecast]_vars

\* ---------------------------------------------- vocabulary of the claims

\* The handlers suspended at their GET.
Suspended == BagToSet(pending)

\* A handler has just ended.
Ended == done.at = "done"

\* The one URI list-resources advertises.
AdvertisedUri == ListResourcesResult.resources[1].uri

IsForecastCall(r) == r.kind = "call-tool" /\ r.name = "get_forecast"

\* Arguments that fail structural validation, as the specification words it:
\* not a non-null object, city missing, city not a string, or days present
\* and not a number.
Malformed(args) ==
    \/ args.shape # "object"
    \/ args.city.t = "absent"
    \/ args.city.t # "string"
    \/ args.days.t \notin {"absent", "undefined", "num", "nan"}

\* The request passes routing and validation.
Accepted(r) ==
    \/ r.kind = "read-resource" /\ r.uri = AdvertisedUri
    \/ IsForecastCall(r) /\ ~Malformed(r.args)

ThrewMcp(code) ==
    done.resp.kind = "throw" /\ done.resp.error.class = "McpError"
        /\ done.resp.error.code = code

\* The handler that ended returned a payload not flagged as an error.
ReturnedOk ==
    done.resp.kind = "result" /\ (done.req.kind = "call-tool" => ~done.resp.result.isError)

\* The forecast list a successful call-tool returned (the text is its JSON).
Forecasts == done.resp.result.content[1].text[2]

\* The provider list the forecast GET was fulfilled with.
RawList == done.reply.data.list

\* ceil(n / 8)
CeilDiv8(n) == (n + 7) \div 8

\* Every entry the loop samples carries a condition.
SampledWellFormed(list) ==
    \A k \in 0..(CeilDiv8(Len(list)) - 1) : list[8 * k + 1].weather # << >>

\* A get_forecast handler ended after its GET was fulfilled.
ForecastFulfilled ==
    Ended /\ IsForecastCall(done.req) /\ done.reply.status = "fulfilled"

\* The caller named a city and asked for a whole number of days in 1..5.
AskedDays1to5 ==
    /\ done.req.args.shape = "object"
    /\ done.req.args.city.t = "string"
    /\ done.req.args.city.s # ""
    /\ done.req.args.days.t = "num"
    /\ done.req.args.days.h \in {2, 4, 6, 8, 10}

\* ------------------------------------------------------------------ C1

\* C1 as stated: a get_forecast call with a string city and days in 1..5
\* whose provider call succeeds returns a forecast list of exactly `days`
\* entries.
C1_DaysEntriesWhenFulfilled ==
    (ForecastFulfilled /\ AskedDays1to5)
        => (ReturnedOk /\ Len(Forecasts) = done.req.args.days.h \div 2)

\* C1 amended: a get_forecast call with a string city and days in 1..5
\* returns exactly `days` entries when the provider call succeeds with
\* exactly the cnt = days*8 entries requested, each sampled entry carrying a
\* condition.
C1_DaysEntriesWhenCntHonoured ==
    (/\ ForecastFulfilled
     /\ AskedDays1to5
     /\ Len(RawList) = done.http[1].cnt
     /\ SampledWellFormed(RawList))
        => (ReturnedOk /\ Len(Forecasts) = done.req.args.days.h \div 2)

C1_Witness ==
    /\ ForecastFulfilled
    /\ AskedDays1to5
    /\ done.req.args.days = Num(5)
    /\ Len(RawList) = 40
    /\ done.http[1].cnt = 40
    /\ ReturnedOk
    /\ Len(Forecasts) = 5

\* ------------------------------------------------------------------ C2

\* The entry count of the forecast GET of handler h is one of 8, 16, 24, 32,
\* 40, and 24 when days is not there.
CntClamped(h) ==
    /\ h.http[1].hasCnt
    /\ h.http[1].cnt \in {8, 16, 24, 32, 40}
    /\ (Get(h.req.args.days).t = "undefined" => h.http[1].cnt = 24)

\* C2 as stated: the entry count sent to the provider is days*8 with days
\* clamped to 1..5 (8, 16, 24, 32 or 40), and 24 when days is absent,
\* whatever numeric days the caller supplied.
C2_CntClampedOneToFive ==
    /\ \A h \in Suspended : IsForecastCall(h.req) => CntClamped(h)
    /\ (Ended /\ IsForecastCall(done.req) /\ done.http # << >>) => CntClamped(done)

\* ------------------------------------------------------------------ C3

\* The provider's message when the error carries one, else the transport's.
ExpectedErrorText(e) ==
    <<"Weather API error: ",
      IF /\ e.response.present
         /\ e.response.data.shape = "object"
         /\ e.response.data.message.t = "string"
      THEN e.response.data.message.s
      ELSE e.message>>

\* C3 as stated: a provider call that fails with a transport error ends a
\* read-resource with a protocol error and a get_forecast call with a
\* returned payload flagged isError and no protocol error; either way the
\* text is the provider's message when present, else the transport's.
C3_HardOnReadSoftOnCall ==
    (Ended /\ done.reply.status = "rejected")
        => /\ (done.req.kind = "read-resource"
                  => /\ ThrewMcp("InternalError")
                     /\ done.resp.error.message = ExpectedErrorText(done.reply.error))
           /\ (done.req.kind = "call-tool"
                  => /\ done.resp.kind = "result"
                     /\ done.resp.result.isError
                     /\ done.resp.result.content[1].text
                            = ExpectedErrorText(done.reply.error))

\* ------------------------------------------------------------------ C4

\* C4: a get_forecast call whose arguments fail structural validation ends
\* at once with an invalid-params error and no GET issued for it; no handler
\* suspended at a GET has such arguments, and the count of GETs issued is
\* that of the accepted requests.
C4_MalformedRejectedWithoutGet ==
    /\ \A h \in Suspended : IsForecastCall(h.req) => ~Malformed(h.req.args)
    /\ (Ended /\ IsForecastCall(done.req) /\ Malformed(done.req.args))
          => /\ ThrewMcp("InvalidParams")
             /\ done.http = << >>
             /\ done.reply.status = "none"
    /\ ngets = naccepted

\* A numeric string as days is rejected while another request's GET is pending.
C4_Witness ==
    /\ Ended
    /\ IsForecastCall(done.req)
    /\ done.req.args.city = Str("Paris")
    /\ done.req.args.days = Str("3")
    /\ ThrewMcp("InvalidParams")
    /\ done.http = << >>
    /\ BagCardinality(pending) = 1
    /\ ngets = 1

\* ------------------------------------------------------------------ C5

\* C5: a read-resource whose uri is not the advertised one ends at once with
\* an invalid-request error and no GET; a GET of the current-weather
\* endpoint is only ever issued for a read of the advertised uri.
C5_UnknownUriRejectedWithoutGet ==
    /\ (Ended /\ done.req.kind = "read-resource" /\ done.req.uri # AdvertisedUri)
          => /\ ThrewMcp("InvalidRequest")
             /\ done.http = << >>
             /\ done.reply.status = "none"
    /\ \A h \in Suspended \cup {done} :
          \A i \in 1..Len(h.http) :
              h.http[i].endpoint = CURRENT
                  => (h.req.kind = "read-resource" /\ h.req.uri = AdvertisedUri)

C5_Witness ==
    /\ Ended
    /\ done.req.kind = "read-resource"
    /\ done.req.uri = ResourceUri("Paris")
    /\ ThrewMcp("InvalidRequest")
    /\ done.http = << >>
    /\ nreq = 1
    /\ ngets = 0

\* ------------------------------------------------------------------ C6

\* C6: every request that passes routing and validation has exactly one GET
\* issued for it, from the moment its handler is suspended to its end (a
\* rejected GET is not repeated), every other request has none, and over the
\* whole run the GETs issued are as many as the requests accepted.
C6_OneGetPerAcceptedRequest ==
    /\ \A h \in Suspended : Accepted(h.req) /\ Len(h.http) = 1
    /\ Ended => Len(done.http) = IF Accepted(done.req) THEN 1 ELSE 0
    /\ (Ended /\ done.req.kind \in {"list-resources", "list-tools"}) => done.http = << >>
    /\ ngets = naccepted
    /\ ngets <= nreq
    /\ BagCardinality(pending) <= ngets

\* Two identical get_forecast requests are suspended together: two GETs.
C6_Witness ==
    /\ \E h \in Suspended : IsForecastCall(h.req) /\ CopiesIn(h, pending) = 2
    /\ nreq = 2
    /\ ngets = 2

\* ------------------------------------------------------------------ C7

\* C7 as stated: the dates of the forecast list one successful get_forecast
\* call returns are pairwise distinct, whatever list the provider sent,
\* entries without dt_txt (each of which takes the day the clock shows when
\* it is sampled) included.
C7_DatesPairwiseDistinct ==
    (ForecastFulfilled /\ ReturnedOk)
        => \A i, j \in 1..Len(Forecasts) :
              i # j => Forecasts[i].date # Forecasts[j].date

\* ------------------------------------------------------------------ C8

\* Handler h's arguments name a non-empty string city and, when days is
\* present, a whole-number days.
WellFormedArgs(h) ==
    /\ h.req.args.city.t = "string"
    /\ h.req.args.city.s # ""
    /\ \/ Get(h.req.args.days).t = "undefined"
       \/ h.req.args.days.t = "num" /\ h.req.args.days.h % 2 = 0

\* C8 as stated: a get_forecast call that reaches the provider has a
\* non-empty string city and, when days is present, a whole-number days.
C8_ReachesProviderWellFormed ==
    \A h \in Suspended \cup {done} :
        (IsForecastCall(h.req) /\ h.http # << >>) => WellFormedArgs(h)

\* C8 amended: a get_forecast call that reaches the provider has arguments
\* that are an object whose city is a string (the empty string included),
\* sent as q, and whose days, when present, is of type number (fractions and
\* NaN included).
C8_ReachesProviderStringAndNumber ==
    \A h \in Suspended \cup {done} :
        (IsForecastCall(h.req) /\ h.http # << >>)
            => /\ h.req.args.shape = "object"
               /\ h.req.args.city.t = "string"
               /\ h.http[1].q = h.req.args.city.s
               /\ h.req.args.days.t \in {"absent", "undefined", "num", "nan"}

\* An empty city and two and a half days are awaited at the provider.
C8_Witness ==
    \E h \in Suspended :
        /\ h.at = "awaitForecast"
        /\ IsForecastCall(h.req)
        /\ h.req.args.city = Str("")
        /\ h.req.args.days = Half(5)
        /\ h.http[1].q = ""
        /\ h.http[1].cnt = 20

\* ------------------------------------------------------------------ C9

\* How many of the sampled entries 0, 8, .., 8*k of list carry no dt_txt:
\* the clock is read once for each of them, in order.
ReadsUpTo(list, k) ==
    Cardinality({j \in 0..k : list[8 * j + 1].dt_txt.t # "string"})

\* The date the k-th stride's first entry gives: the text of its dt_txt
\* before the first space, else the day the clock showed when it was sampled.
StrideDate(list, k) ==
    IF list[8 * k + 1].dt_txt.t = "string"
    THEN <<list[8 * k + 1].dt_txt.txt[1]>>
    ELSE <<DayStr(done.reads[ReadsUpTo(list, k)])>>

\* C9 as stated: a forecast list of n entries, whatever its entries hold,
\* is normalized to ceil(n/8) entries, the k-th (from 0) holding the date,
\* the temperature and the first condition of provider entry 8*k, in order;
\* 40 entries give 5 and none gives none.
C9_StrideOfEightAnyList ==
    ForecastFulfilled
        => /\ ReturnedOk
           /\ Len(Forecasts) = CeilDiv8(Len(RawList))
           /\ \A k \in 0..(Len(Forecasts) - 1) :
                 /\ Forecasts[k + 1].temperature = RawList[8 * k + 1].main.temp
                 /\ RawList[8 * k + 1].weather # << >>
                 /\ Forecasts[k + 1].conditions = RawList[8 * k + 1].weather[1].description
                 /\ Forecasts[k + 1].date = StrideDate(RawList, k)
           /\ (Len(RawList) = 0 => Forecasts = << >>)

\* C9 amended: a forecast list of n entries each of whose sampled entries
\* (index 0, 8, 16, ...) carries at least one condition is normalized to
\* ceil(n/8) entries, the k-th (from 0) holding the date, the temperature
\* and the first condition of provider entry 8*k, in order.
C9_StrideOfEight ==
    (ForecastFulfilled /\ SampledWellFormed(RawList))
        => /\ ReturnedOk
           /\ Len(Forecasts) = CeilDiv8(Len(RawList))
           /\ \A k \in 0..(Len(Forecasts) - 1) :
                 /\ Forecasts[k + 1].temperature = RawList[8 * k + 1].main.temp
                 /\ Forecasts[k + 1].conditions = RawList[8 * k + 1].weather[1].description
                 /\ Forecasts[k + 1].date = StrideDate(RawList, k)
           /\ (Len(RawList) = 0 => Forecasts = << >>)

\* Forty entries give five, from indices 0, 8, 16, 24 and 32.
C9_Witness ==
    /\ ForecastFulfilled
    /\ Len(RawList) = 40
    /\ ReturnedOk
    /\ [k \in 1..Len(Forecasts) |-> Forecasts[k].temperature] = <<0, 8, 16, 24, 32>>
    /\ Forecasts[2].conditions = "light rain"

\* Midnight passes between two samples of entries without dt_txt.
C9_WitnessMidnight ==
    /\ ForecastFulfilled
    /\ Len(RawList) = 9
    /\ ReturnedOk
    /\ done.reads = <<0, 1>>
    /\ Forecasts[1].date = <<DayStr(0)>>
    /\ Forecasts[2].date = <<DayStr(1)>>

\* ----------------------------------------------------------------- C10

\* C10: when the GET is fulfilled and the payload has an empty conditions
\* list where the handler reads it, the TypeError leaves the handler as it
\* is on both paths: no McpError, no payload flagged isError. The provider
\* error (InternalError, or the isError payload) only follows a rejected GET.
C10_OtherExceptionsPropagate ==
    /\ (Ended /\ done.reply.status = "fulfilled" /\ done.req.kind = "read-resource"
           /\ done.reply.data.weather = << >>)
          => (done.resp.kind = "throw" /\ done.resp.error = TypeError)
    /\ (ForecastFulfilled /\ ~SampledWellFormed(RawList))
          => (done.resp.kind = "throw" /\ done.resp.error = TypeError)
    /\ (Ended /\ (ThrewMcp("InternalError")
                     \/ (done.resp.kind = "result" /\ done.req.kind = "call-tool"
                            /\ done.resp.result.isError)))
          => done.reply.status = "rejected"

\* The second sampled entry throws after the clock was read for both.
C10_Witness ==
    /\ ForecastFulfilled
    /\ Len(RawList) = 16
    /\ RawList[9].weather = << >>
    /\ done.reads = <<0, 1>>
    /\ done.resp.kind = "throw"
    /\ done.resp.error.class = "TypeError"

====
